---- MODULE Spec2Model ----
(***************************************************************************)
(* Model of smart_but_friendly_passwords.py: the password validator        *)
(* _validate_details / is_valid_password and its heuristic helpers.        *)
(*                                                                         *)
(* A Python str is modelled as a sequence of code points (naturals), so    *)
(* that ord(), case mapping and the character classes are computed rather  *)
(* than assumed.  The model covers ASCII text.                             *)
(***************************************************************************)
EXTENDS Integers, Sequences, FiniteSets, TLC

\* password: the argument; pw: the local pw of _validate_details; pc: the
\* block of the function about to run; ok, info: the returned pair;
\* amb_count: the local of that name, which is never stored in info (info
\* holds the rounded ratio, ambiguous_ratio, in thousandths).
VARIABLES password, pw, pc, ok, info, amb_count

vars == <<password, pw, pc, ok, info, amb_count>>

(***************************************************************************)
(* Characters                                                              *)
(***************************************************************************)

\* The printable ASCII characters, in code-point order starting at 32.  The
\* grave accent (code 96) cannot be written in a string literal here; its
\* place holds the empty string and the character is named by GraveAccent.
Printable ==
    << " ", "!", "\"", "#", "$", "%", "&", "'", "(", ")", "*", "+", ",", "-",
       ".", "/", "0", "1", "2", "3", "4", "5", "6", "7", "8", "9", ":", ";",
       "<", "=", ">", "?", "@", "A", "B", "C", "D", "E", "F", "G", "H", "I",
       "J", "K", "L", "M", "N", "O", "P", "Q", "R", "S", "T", "U", "V", "W",
       "X", "Y", "Z", "[", "\\", "]", "^", "_", "", "a", "b", "c", "d", "e",
       "f", "g", "h", "i", "j", "k", "l", "m", "n", "o", "p", "q", "r", "s",
       "t", "u", "v", "w", "x", "y", "z", "{", "|", "}", "~" >>

GraveAccent == 96

\* ord() of a one-character string.
Ord(c) == 31 + (CHOOSE i \in 1..Len(Printable) : Printable[i] = c)

\* A string literal as the sequence of its code points.
Codes(str) == [i \in 1..Len(str) |-> Ord(SubSeq(str, i, i))]

\* str.isupper / str.islower / str.isdigit / str.isalpha / str.isspace,
\* and membership in string.punctuation, on one ASCII character.
IsUpper(c) == c >= 65 /\ c <= 90
IsLower(c) == c >= 97 /\ c <= 122
IsDigit(c) == c >= 48 /\ c <= 57
IsAlpha(c) == IsUpper(c) \/ IsLower(c)
IsSpace(c) == (c >= 9 /\ c <= 13) \/ (c >= 28 /\ c <= 32)
IsPunctuation(c) ==
    \/ c >= 33 /\ c <= 47
    \/ c >= 58 /\ c <= 64
    \/ c >= 91 /\ c <= 96
    \/ c >= 123 /\ c <= 126

\* The regular expression class \w on ASCII text: [A-Za-z0-9_].
IsWordChar(c) == IsAlpha(c) \/ IsDigit(c) \/ c = 95

\* str.lower() on one character and on a string.
LowerChar(c) == IF IsUpper(c) THEN c + 32 ELSE c
Lower(s) == [i \in 1..Len(s) |-> LowerChar(s[i])]

\* s[::-1]
Reverse(s) == [i \in 1..Len(s) |-> s[Len(s) + 1 - i]]

Min(a, b) == IF a <= b THEN a ELSE b
Max(a, b) == IF a >= b THEN a ELSE b

\* s[:k]
Prefix(s, k) == SubSeq(s, 1, Min(k, Len(s)))

\* needle in s   (Python substring test; the empty string is in every string)
Contains(s, needle) ==
    \E i \in 1..(Len(s) - Len(needle) + 1) :
        \A k \in 1..Len(needle) : s[i + k - 1] = needle[k]

\* str.strip(): drop leading and trailing whitespace.
Strip(s) ==
    LET keep == {i \in 1..Len(s) : ~IsSpace(s[i])}
    IN  IF keep = {} THEN <<>>
        ELSE LET a == CHOOSE i \in keep : \A j \in keep : i <= j
                 b == CHOOSE i \in keep : \A j \in keep : i >= j
             IN  SubSeq(s, a, b)

(***************************************************************************)
(* Heuristic helpers                                                       *)
(*                                                                         *)
(* A for loop over the positions lo..hi that carries a loop state is       *)
(* written as a recursive operator that runs the first half of the range   *)
(* and then the second half from the state the first half left (bound as   *)
(* "half"): the same iterations in the same order, evaluated at            *)
(* logarithmic depth.                                                      *)
(***************************************************************************)

\* The largest element of a non-empty set of integers.
SetMax(S) == CHOOSE x \in S : \A y \in S : y <= x

\* One iteration of the loop of _longest_linear_sequence, for the pair
\* (s[i-1], s[i]) with i 1-based.  last_step = None is modelled as 0, which
\* is neither +1 nor -1.
LinearStep(s, i, st) ==
    LET step == s[i] - s[i - 1]
    IN  IF step = 1 \/ step = -1
        THEN LET cur == IF st.last_step = step THEN st.cur + 1 ELSE 2
             IN  [best |-> Max(st.best, cur), cur |-> cur, last_step |-> step]
        ELSE [best |-> st.best, cur |-> 1, last_step |-> 0]

RECURSIVE LinearLoop(_, _, _, _)
LinearLoop(s, lo, hi, st) ==
    IF lo > hi THEN st
    ELSE IF lo = hi THEN LinearStep(s, lo, st)
    ELSE CHOOSE r \in
             {LinearLoop(s, (lo + hi) \div 2 + 1, hi, half) :
                 half \in {LinearLoop(s, lo, (lo + hi) \div 2, st)}} : TRUE

\* Longest run of characters stepping by a constant +1 or -1, letters
\* compared case-insensitively; 0 for the empty string.
_longest_linear_sequence(s) ==
    IF s = <<>> THEN 0
    ELSE LinearLoop(Lower(s), 2, Len(s),
                    [best |-> 1, cur |-> 1, last_step |-> 0]).best

\* The inner loop of _longest_substring_on_line for the start position p
\* (1-based), over the window lengths w..wmax: every window found on the
\* line raises best to its length, so the loop ends with the largest such
\* length, or with best unchanged.
WindowLoop(text, line, p, w, wmax, best) ==
    LET found == {v \in w..wmax : Contains(line, SubSeq(text, p, p + v - 1))}
    IN  IF found = {} THEN best ELSE Max(best, SetMax(found))

\* Variant of the outer-loop iteration whose windows start one longer,
\* at best+2.
StartStepSkipping(text, line, p, best) ==
    WindowLoop(text, line, p, best + 2, Min(Len(text) - p + 1, 12), best)

\* One iteration of the outer loop of _longest_substring_on_line: from the
\* start p it tries the windows of length best+1 .. min(n - i, 12), best
\* being the value when the inner range is built.
StartStep(text, line, p, best) ==
    WindowLoop(text, line, p, best + 1, Min(Len(text) - p + 1, 12), best)

RECURSIVE StartLoop(_, _, _, _, _)
StartLoop(text, line, lo, hi, best) ==
    IF lo > hi THEN best
    ELSE IF lo = hi THEN StartStep(text, line, lo, best)
    ELSE CHOOSE r \in
             {StartLoop(text, line, (lo + hi) \div 2 + 1, hi, half) :
                 half \in {StartLoop(text, line, lo, (lo + hi) \div 2, best)}} : TRUE

_longest_substring_on_line(text, line) ==
    StartLoop(text, line, 1, Len(text), 1)

\* The four keyboard rows of _longest_keyboard_walk.
rows ==
    << <<GraveAccent>> \o Codes("1234567890-="),
       Codes("qwertyuiop"),
       Codes("asdfghjkl"),
       Codes("zxcvbnm") >>

\* best = 1, then best = max(best, ...) for every row and its reversal.
_longest_keyboard_walk(s) ==
    LET lowers == Lower(s)
    IN  SetMax({1}
          \cup {_longest_substring_on_line(lowers, rows[r]) :
                   r \in 1..Len(rows)}
          \cup {_longest_substring_on_line(lowers, Reverse(rows[r])) :
                   r \in 1..Len(rows)})

\* One iteration of the loop of _max_same_char_run.
RunStep(s, i, st) ==
    IF s[i] = s[i - 1]
    THEN [best |-> Max(st.best, st.current + 1), current |-> st.current + 1]
    ELSE [best |-> st.best, current |-> 1]

RECURSIVE RunLoop(_, _, _, _)
RunLoop(s, lo, hi, st) ==
    IF lo > hi THEN st
    ELSE IF lo = hi THEN RunStep(s, lo, st)
    ELSE CHOOSE r \in
             {RunLoop(s, (lo + hi) \div 2 + 1, hi, half) :
                 half \in {RunLoop(s, lo, (lo + hi) \div 2, st)}} : TRUE

\* Maximum run of the same character (1 also for the empty string).
_max_same_char_run(s) ==
    RunLoop(s, 2, Len(s), [best |-> 1, current |-> 1]).best

\* chunk * repeats
Repeat(chunk, repeats) ==
    [i \in 1..(Len(chunk) * Max(repeats, 0)) |->
        chunk[((i - 1) % Len(chunk)) + 1]]

\* One position of the left-to-right scan of s.count(chunk): an occurrence
\* starting at i counts when it does not overlap the one counted before.
CountStep(s, chunk, i, st) ==
    IF /\ i >= st.next
       /\ i + Len(chunk) - 1 <= Len(s)
       /\ SubSeq(s, i, i + Len(chunk) - 1) = chunk
    THEN [count |-> st.count + 1, next |-> i + Len(chunk)]
    ELSE st

RECURSIVE CountLoop(_, _, _, _, _)
CountLoop(s, chunk, lo, hi, st) ==
    IF lo > hi THEN st
    ELSE IF lo = hi THEN CountStep(s, chunk, lo, st)
    ELSE CHOOSE r \in
             {CountLoop(s, chunk, (lo + hi) \div 2 + 1, hi, half) :
                 half \in {CountLoop(s, chunk, lo, (lo + hi) \div 2, st)}} : TRUE

\* s.count(chunk): the number of non-overlapping occurrences
\* (len(s) + 1 for the empty chunk).
Count(s, chunk) ==
    IF chunk = <<>> THEN Len(s) + 1
    ELSE CountLoop(s, chunk, 1, Len(s), [count |-> 0, next |-> 1]).count

\* First loop of _is_repeated_short_chunk: the string is chunk * repeats.
ExactTiling(s, k) ==
    /\ Len(s) % k = 0
    /\ (Len(s) \div k) >= 3
    /\ Repeat(Prefix(s, k), Len(s) \div k) = s

\* Variant of the second loop that is content with 2 occurrences.
LooseRepeatTwice(s, k) ==
    /\ Count(s, Prefix(s, k)) >= 2
    /\ Len(Prefix(s, k)) * 3 <= Len(s)

\* Second loop: the prefix of length k occurs at least 3 times.
LooseRepeat(s, k) ==
    /\ Count(s, Prefix(s, k)) >= 3
    /\ Len(Prefix(s, k)) * 3 <= Len(s)

_is_repeated_short_chunk(s) ==
    \/ \E k \in 1..3 : ExactTiling(s, k)
    \/ \E k \in 1..3 : LooseRepeat(s, k)

\* The maximal runs of ASCII letters of s, in order of appearance: the
\* non-empty pieces of re.split(r"[^A-Za-z]+", s), and the runs that
\* re.findall(r"[A-Za-z]{n,}", s) selects from.
AlphaRuns(s) ==
    LET starts == {i \in 1..Len(s) :
                      IsAlpha(s[i]) /\ (i = 1 \/ ~IsAlpha(s[i - 1]))}
        RunEnd(i) == CHOOSE j \in i..Len(s) :
                        /\ \A m \in i..j : IsAlpha(s[m])
                        /\ (j = Len(s) \/ ~IsAlpha(s[j + 1]))
        Nth(n) == CHOOSE i \in starts :
                      Cardinality({j \in starts : j < i}) = n - 1
    IN  [n \in 1..Cardinality(starts) |-> SubSeq(s, Nth(n), RunEnd(Nth(n)))]

IsLong7(t) == Len(t) >= 7
IsLong3(t) == Len(t) >= 3

vowels == {Ord("a"), Ord("e"), Ord("i"), Ord("o"), Ord("u"),
           Ord("A"), Ord("E"), Ord("I"), Ord("O"), Ord("U")}

VowelCount(t) == Cardinality({i \in 1..Len(t) : t[i] \in vowels})

\* v / len(token) < 0.2, in exact arithmetic
_looks_like_consonant_smash(s) ==
    LET tokens == SelectSeq(AlphaRuns(s), IsLong7)
    IN  \E n \in 1..Len(tokens) : 5 * VowelCount(tokens[n]) < Len(tokens[n])

\* tokens = [t for t in re.split(...) if len(t) >= 3]
WordTokens(s) == SelectSeq(AlphaRuns(s), IsLong3)

_looks_like_passphrase(s) == Len(WordTokens(s)) >= 2

\* End (exclusive) of the greedy [a-z]* starting at position i.
LowerRunEnd(s, i) ==
    CHOOSE j \in i..(Len(s) + 1) :
        /\ \A m \in i..(j - 1) : IsLower(s[m])
        /\ (j = Len(s) + 1 \/ ~IsLower(s[j]))

\* One position of the scan of re.findall(r"[A-Z][a-z]{2,}", s): a match
\* starts at i when the scan has passed the previous match, and takes the
\* whole run of lowercase letters (leftmost, greedy, non-overlapping).
CamelStep(s, i, st) ==
    IF i >= st.next /\ IsUpper(s[i]) /\ LowerRunEnd(s, i + 1) >= i + 3
    THEN [count |-> st.count + 1, next |-> LowerRunEnd(s, i + 1)]
    ELSE st

RECURSIVE CamelLoop(_, _, _, _)
CamelLoop(s, lo, hi, st) ==
    IF lo > hi THEN st
    ELSE IF lo = hi THEN CamelStep(s, lo, st)
    ELSE CHOOSE r \in
             {CamelLoop(s, (lo + hi) \div 2 + 1, hi, half) :
                 half \in {CamelLoop(s, lo, (lo + hi) \div 2, st)}} : TRUE

_camel_case_segments(s) ==
    CamelLoop(s, 1, Len(s), [count |-> 0, next |-> 1]).count

\* \b at the gap before position i (1-based; i = Len+1 is the end).
WordBoundary(s, i) ==
    LET before == i > 1 /\ IsWordChar(s[i - 1])
        after  == i <= Len(s) /\ IsWordChar(s[i])
    IN  before # after

\* (19|20)\d{2} at positions i..i+3
YearAt(s, i) ==
    /\ i + 3 <= Len(s)
    /\ \/ s[i] = Ord("1") /\ s[i + 1] = Ord("9")
       \/ s[i] = Ord("2") /\ s[i + 1] = Ord("0")
    /\ IsDigit(s[i + 2])
    /\ IsDigit(s[i + 3])

\* re.search(r"\b(19|20)\d{2}\b", low) is not None
has_year(low) ==
    \E i \in 1..Len(low) :
        YearAt(low, i) /\ WordBoundary(low, i) /\ WordBoundary(low, i + 4)

months ==
    << Codes("jan"), Codes("feb"), Codes("mar"), Codes("apr"), Codes("may"),
       Codes("jun"), Codes("jul"), Codes("aug"), Codes("sep"), Codes("oct"),
       Codes("nov"), Codes("dec") >>

has_month(low) == \E m \in 1..Len(months) : Contains(low, months[m])

_has_word_plus_dateish(s) ==
    LET low == Lower(s)
        has_word == Len(WordTokens(s)) >= 1
        not_trivial_seq == _longest_linear_sequence(s) < 4
    IN  has_word /\ (has_year(low) \/ has_month(low)) /\ not_trivial_seq

(***************************************************************************)
(* Inputs                                                                  *)
(***************************************************************************)

\* Bound on the number of fragments concatenated into one candidate.
MaxFrags == 3

\* Building blocks of the candidate passwords: words, a year with and
\* without leading symbols, a month, whitespace, keyboard rows and walks,
\* digit runs, a banned term and look-alike characters.
Fragments ==
    { Codes("Book"), Codes("Paper"), Codes("Aug"), Codes("abc"),
      Codes("!!2024"), Codes("2024"), Codes(" "), Codes("Qwerty"),
      Codes("sdfg"), Codes("4321"), Codes("0000"), rows[1] }

RECURSIVE Concatenations(_)
Concatenations(n) ==
    IF n = 0 THEN {<<>>}
    ELSE LET shorter == Concatenations(n - 1)
         IN  shorter \cup {c \o f : c \in shorter, f \in Fragments}

Candidates == Concatenations(MaxFrags)

(***************************************************************************)
(* _validate_details, one action per block of the function                 *)
(***************************************************************************)

banned_terms ==
    { Codes("password"), Codes("qwerty"), Codes("letmein"), Codes("welcome"),
      Codes("iloveyou"), Codes("dragon"), Codes("monkey"), Codes("admin"),
      Codes("login"), Codes("abc123") }

ambiguous_set ==
    { Ord("0"), Ord("O"), Ord("o"), Ord("1"), Ord("l"), Ord("I"), Ord("|"),
      Ord("5"), Ord("S"), Ord("2"), Ord("Z"), Ord("8"), Ord("B"), Ord("6"),
      Ord("G"), Ord("9"), Ord("g"), Ord("Q"), Ord("q") }

separators == {Ord("-"), Ord("_"), Ord(" "), Ord(".")}

\* Variant of the banned-term test without lowercasing the candidate.
ContainsBannedCaseSensitive(s) == \E term \in banned_terms : Contains(s, term)

\* any(term in low_pw for term in banned_terms)
ContainsBanned(s) == \E term \in banned_terms : Contains(Lower(s), term)

\* sum(ch in ambiguous_set for ch in pw)
AmbiguousCount(s) == Cardinality({i \in 1..Len(s) : s[i] \in ambiguous_set})

\* Variant of the ambiguity limit with a strict comparison.
RatioAbove60(count, length) == 10 * count > 6 * Max(1, length)

\* amb_ratio >= 0.60 and 0.30 <= amb_ratio, with amb_ratio =
\* amb_count / max(1, length), in exact arithmetic (count: amb_count)
RatioAtLeast60(count, length) == 10 * count >= 6 * Max(1, length)
RatioAtLeast30(count, length) == 10 * count >= 3 * Max(1, length)

\* The sign of fl(r / den) - r / den for r >= 0 and den >= 1, fl being the
\* IEEE double nearest the quotient (53 significant bits, ties to even).
\* A quotient of 1 or more is first halved (den doubled) until it is below
\* 1, which leaves its significant digits and so the rounding unchanged;
\* then the binary digits are produced by long division, the leading
\* zeros skipped, and after the 53rd significant digit the remainder says
\* which way the division rounded.  left: digits still to produce;
\* started: a 1 has been produced; last: the latest digit.
RECURSIVE QuotientError(_, _, _, _, _)
QuotientError(r, den, left, started, last) ==
    IF r = 0 THEN 0
    ELSE IF ~started /\ r >= den
    THEN QuotientError(r, 2 * den, left, FALSE, 0)
    ELSE IF left = 0
    THEN IF 2 * r < den THEN -1
         ELSE IF 2 * r > den THEN 1
         ELSE IF last = 1 THEN 1 ELSE -1
    ELSE LET bit == IF 2 * r >= den THEN 1 ELSE 0
         IN  IF ~started /\ bit = 0
             THEN QuotientError(2 * r, den, left, FALSE, 0)
             ELSE QuotientError(2 * r - bit * den, den, left - 1, TRUE, bit)

\* round(count / max(1, length), 3), as a number of thousandths (0.308 is
\* 308).  round() rounds the double that the division produced, half to
\* even: when the exact quotient lies midway between two thousandths the
\* result follows the error of the division, and only a quotient that is
\* a double itself (such as 1/16) is a true tie.
Round3(count, length) ==
    LET den == Max(1, length)
        q == (1000 * count) \div den
        r == (1000 * count) % den
    IN  IF 2 * r < den THEN q
        ELSE IF 2 * r > den THEN q + 1
        ELSE LET e == QuotientError(count, den, 53, FALSE, 0)
             IN  IF e > 0 THEN q + 1
                 ELSE IF e < 0 THEN q
                 ELSE IF q % 2 = 0 THEN q ELSE q + 1

\* info.update(...) / info[key] = value: the new entries win.
Update(d, new) == new @@ d

\* Variant of a return that leaves info["reason"] unset.
ReturnWithoutReason(result, reason) ==
    /\ ok' = result
    /\ info' = info
    /\ pc' = "done"
    /\ UNCHANGED <<password, pw, amb_count>>

Return(result, reason) ==
    /\ ok' = result
    /\ info' = Update(info, "reason" :> reason)
    /\ pc' = "done"
    /\ UNCHANGED <<password, pw, amb_count>>

\* lines 84-89: pw = pw.strip(); length = len(pw)
Strip_ ==
    /\ pc = "start"
    /\ pw' = Strip(pw)
    /\ info' = Update(info, "length" :> Len(Strip(pw)))
    /\ pc' = "length_gate"
    /\ UNCHANGED <<password, ok, amb_count>>

\* lines 92-94
RejectTooShort ==
    /\ pc = "length_gate"
    /\ info.length < 8
    /\ Return(FALSE, "too_short")

\* lines 97-102
Classify ==
    /\ pc = "length_gate"
    /\ ~(info.length < 8)
    /\ info' = Update(info,
          [has_lower  |-> \E i \in 1..Len(pw) : IsLower(pw[i]),
           has_upper  |-> \E i \in 1..Len(pw) : IsUpper(pw[i]),
           has_digit  |-> \E i \in 1..Len(pw) : IsDigit(pw[i]),
           has_symbol |-> \E i \in 1..Len(pw) :
                              IsPunctuation(pw[i]) \/ IsSpace(pw[i])])
    /\ pc' = "banned_gate"
    /\ UNCHANGED <<password, pw, ok, amb_count>>

\* lines 105-112
RejectBanned ==
    /\ pc = "banned_gate"
    /\ ContainsBanned(pw)
    /\ Return(FALSE, "banned_term")

\* lines 115-118
MeasureAmbiguity ==
    /\ pc = "banned_gate"
    /\ ~ContainsBanned(pw)
    /\ amb_count' = AmbiguousCount(pw)
    /\ info' = Update(info,
          "ambiguous_ratio" :> Round3(AmbiguousCount(pw), info.length))
    /\ pc' = "ambiguity_gate"
    /\ UNCHANGED <<password, pw, ok>>

\* lines 119-121
RejectAmbiguous ==
    /\ pc = "ambiguity_gate"
    /\ RatioAtLeast60(amb_count, info.length)
    /\ Return(FALSE, "too_ambiguous")

\* lines 124-127
MeasureSequences ==
    /\ pc = "ambiguity_gate"
    /\ ~RatioAtLeast60(amb_count, info.length)
    /\ info' = Update(info,
          [longest_linear_sequence |-> _longest_linear_sequence(pw),
           longest_keyboard_walk   |-> _longest_keyboard_walk(pw)])
    /\ pc' = "sequence_gate"
    /\ UNCHANGED <<password, pw, ok, amb_count>>

\* Variant of the sequence limit with a strict comparison.
SequenceLimitStrict(seq_len, kb_len) == Max(seq_len, kb_len) > 5

\* max(seq_len, kb_len) >= 5
SequenceLimit(seq_len, kb_len) == Max(seq_len, kb_len) >= 5

\* lines 128-130
RejectSequential ==
    /\ pc = "sequence_gate"
    /\ SequenceLimit(info.longest_linear_sequence, info.longest_keyboard_walk)
    /\ Return(FALSE, "too_sequential")

\* lines 133-151: repetition, key smashing and the intentional signals
Detect ==
    /\ pc = "sequence_gate"
    /\ ~SequenceLimit(info.longest_linear_sequence, info.longest_keyboard_walk)
    /\ info' = Update(info,
          [max_same_char_run     |-> _max_same_char_run(pw),
           repeated_short_chunk  |-> _is_repeated_short_chunk(pw),
           consonant_smash       |-> _looks_like_consonant_smash(pw),
           passphrase_like       |-> _looks_like_passphrase(pw),
           camel_case            |-> _camel_case_segments(pw) >= 2,
           word_plus_dateish     |-> _has_word_plus_dateish(pw),
           meaningful_separators |-> \E i \in 1..Len(pw) : pw[i] \in separators])
    /\ pc' = "scoring"
    /\ UNCHANGED <<password, pw, ok, amb_count>>

\* Variant of the length points with the bands one character late.
LengthPointsShifted(length) ==
    IF 8 <= length /\ length <= 10 THEN 1
    ELSE IF 11 <= length /\ length <= 12 THEN 2
    ELSE IF 13 <= length /\ length <= 16 THEN 3
    ELSE 4

\* lines 159-166
LengthPoints(length) ==
    IF 8 <= length /\ length <= 9 THEN 1
    ELSE IF 10 <= length /\ length <= 11 THEN 2
    ELSE IF 12 <= length /\ length <= 15 THEN 3
    ELSE 4

Bit(b) == IF b THEN 1 ELSE 0

\* lines 169-170
VarietyPoints(d) ==
    LET variety_count == Bit(d.has_lower) + Bit(d.has_upper)
                         + Bit(d.has_digit) + Bit(d.has_symbol)
    IN  Min(3, Max(0, variety_count - 1))

\* lines 173-180
Rewards(d, score) ==
    LET s1 == IF d.passphrase_like THEN score + 2 ELSE score
        s2 == IF d.camel_case THEN s1 + 2 ELSE s1
        s3 == IF d.word_plus_dateish THEN s2 + 1 ELSE s2
        s4 == IF d.meaningful_separators /\ (d.passphrase_like \/ d.camel_case)
              THEN s3 + 1 ELSE s3
    IN  s4

\* lines 183-194
Penalties(d, count, score) ==
    LET s1 == IF d.longest_linear_sequence >= 4 THEN score - 3 ELSE score
        s2 == IF d.longest_keyboard_walk >= 4 THEN s1 - 3 ELSE s1
        s3 == IF d.repeated_short_chunk THEN s2 - 2 ELSE s2
        s4 == IF d.max_same_char_run >= 4 THEN s3 - 2 ELSE s3
        s5 == IF d.consonant_smash THEN s4 - 2 ELSE s4
        s6 == IF RatioAtLeast30(count, d.length)
                 /\ ~RatioAtLeast60(count, d.length)
              THEN s5 - 1 ELSE s5
    IN  s6

\* lines 156-194: the score, accumulated in source order
ScoreOf(d, count) ==
    Penalties(d, count,
              Rewards(d, 0 + LengthPoints(d.length) + VarietyPoints(d)))

\* lines 156-197
ScoreAssembly ==
    /\ pc = "scoring"
    /\ info' = Update(info,
          [score |-> ScoreOf(info, amb_count),
           has_intent_signal |-> info.passphrase_like \/ info.camel_case
                                 \/ info.word_plus_dateish])
    /\ pc' = "acceptance_gate"
    /\ UNCHANGED <<password, pw, ok, amb_count>>

\* lines 200-202
RejectNoIntent ==
    /\ pc = "acceptance_gate"
    /\ ~info.has_intent_signal
    /\ Return(FALSE, "no_intent_signal")

\* Variant of the score gate with a strict comparison.
ScoreGateStrict(score) == score > 3

\* score >= 3
ScoreGate(score) == score >= 3

\* lines 203-205
Accept ==
    /\ pc = "acceptance_gate"
    /\ info.has_intent_signal
    /\ ScoreGate(info.score)
    /\ Return(TRUE, "accepted")

\* lines 206-208
RejectLowScore ==
    /\ pc = "acceptance_gate"
    /\ info.has_intent_signal
    /\ ~ScoreGate(info.score)
    /\ Return(FALSE, "low_score")

\* A call _validate_details(password): nothing computed yet.
Init ==
    /\ password \in Candidates
    /\ pw = password
    /\ pc = "start"
    /\ ok = FALSE
    /\ info = <<>>
    /\ amb_count = 0    \* the local is unassigned until line 116 runs

Next ==
    \/ Strip_
    \/ RejectTooShort
    \/ Classify
    \/ RejectBanned
    \/ MeasureAmbiguity
    \/ RejectAmbiguous
    \/ MeasureSequences
    \/ RejectSequential
    \/ Detect
    \/ ScoreAssembly
    \/ RejectNoIntent
    \/ Accept
    \/ RejectLowScore

Spec == Init /\ [][Next]_vars

(***************************************************************************)
(* Properties                                                              *)
(***************************************************************************)

Done == pc = "done" /\ "reason" \in DOMAIN info

\* The candidate the evaluation works on: the trimmed argument.
Candidate == Strip(password)

HardReasons == {"too_short", "banned_term", "too_ambiguous", "too_sequential"}

ReasonCodes ==
    HardReasons \cup {"no_intent_signal", "low_score", "accepted"}

\* The four hard-reject conditions as the specification states them,
\* numbered in its order, for a trimmed candidate c.
StatedHardCondition(c, k) ==
    CASE k = 1 -> Len(c) < 8
      [] k = 2 -> \E term \in banned_terms : Contains(Lower(c), term)
      [] k = 3 -> 10 * AmbiguousCount(c) >= 6 * Len(c) /\ Len(c) > 0
      [] k = 4 -> \/ _longest_linear_sequence(c) >= 5
                  \/ _longest_keyboard_walk(c) >= 5

StatedHardReasons ==
    <<"too_short", "banned_term", "too_ambiguous", "too_sequential">>

StatedIntent(c) ==
    \/ _looks_like_passphrase(c)
    \/ _camel_case_segments(c) >= 2
    \/ _has_word_plus_dateish(c)

\* The score as the scoring table states it, from the candidate alone.
StatedScore(c) ==
    LET n == Len(c)
        classes == Cardinality(
            {k \in {"lower", "upper", "digit", "symbol"} :
                \E i \in 1..n :
                    \/ k = "lower" /\ IsLower(c[i])
                    \/ k = "upper" /\ IsUpper(c[i])
                    \/ k = "digit" /\ IsDigit(c[i])
                    \/ k = "symbol" /\ (IsPunctuation(c[i]) \/ IsSpace(c[i]))})
        amb == AmbiguousCount(c)
        passphrase == _looks_like_passphrase(c)
        camel == _camel_case_segments(c) >= 2
        sep == \E i \in 1..n : c[i] \in separators
    IN    (CASE n >= 16 -> 4 [] n >= 12 -> 3 [] n >= 10 -> 2 [] n >= 8 -> 1
             [] OTHER -> 0)
        + (IF classes - 1 > 3 THEN 3 ELSE IF classes - 1 < 0 THEN 0
           ELSE classes - 1)
        + (IF passphrase THEN 2 ELSE 0)
        + (IF camel THEN 2 ELSE 0)
        + (IF _has_word_plus_dateish(c) THEN 1 ELSE 0)
        + (IF sep /\ (passphrase \/ camel) THEN 1 ELSE 0)
        - (IF _longest_linear_sequence(c) >= 4 THEN 3 ELSE 0)
        - (IF _longest_keyboard_walk(c) >= 4 THEN 3 ELSE 0)
        - (IF _is_repeated_short_chunk(c) THEN 2 ELSE 0)
        - (IF _max_same_char_run(c) >= 4 THEN 2 ELSE 0)
        - (IF _looks_like_consonant_smash(c) THEN 2 ELSE 0)
        - (IF 10 * amb >= 3 * n /\ 10 * amb < 6 * n THEN 1 ELSE 0)

\* C1: is_valid_password returns True exactly when the trimmed candidate
\* meets no hard-reject condition, shows an intent signal and scores >= 3.
C1_AcceptIff ==
    Done =>
        (ok <=> /\ \A k \in 1..4 : ~StatedHardCondition(Candidate, k)
                /\ StatedIntent(Candidate)
                /\ StatedScore(Candidate) >= 3)

\* C1 witness: an accepted candidate and a structured one rejected on score
\* alone are both terminal outcomes; this is the accepted one, reached from
\* an argument with surrounding whitespace.
C1_Witness ==
    Done /\ ok /\ info.reason = "accepted" /\ password # Candidate

\* The reason the stated order assigns: the first matching hard-reject
\* condition, "none" when no condition matches.
FirstMatch(c) ==
    IF \E k \in 1..4 : StatedHardCondition(c, k)
    THEN StatedHardReasons[CHOOSE k \in 1..4 :
                              /\ StatedHardCondition(c, k)
                              /\ \A j \in 1..(k - 1) : ~StatedHardCondition(c, j)]
    ELSE "none"

EarliestHardReason ==
    Done =>
        IF FirstMatch(Candidate) = "none" THEN info.reason \notin HardReasons
        ELSE info.reason = FirstMatch(Candidate)

\* Once a reason is reported nothing changes it.
ReasonIsFinal ==
    ("reason" \in DOMAIN info) =>
        ("reason" \in DOMAIN info' /\ info'.reason = info.reason /\ ok' = ok)

\* C2: the reported reason is the earliest matching hard-reject condition
\* in the order too_short, banned_term, too_ambiguous, too_sequential, and
\* no later step changes a reported reason.
C2_FirstMatchWins == [](EarliestHardReason) /\ [][ReasonIsFinal]_vars

\* C2 witness: a candidate matching the banned-term, ambiguity and
\* sequence conditions at once, reported as banned_term.
C2_Witness ==
    /\ Done
    /\ ~StatedHardCondition(Candidate, 1)
    /\ \A k \in 2..4 : StatedHardCondition(Candidate, k)
    /\ info.reason = "banned_term"

\* C3 as stated: every string containing a banned term is rejected with
\* banned_term, whatever its length.
C3_Original ==
    (Done /\ StatedHardCondition(Candidate, 2)) => info.reason = "banned_term"

\* C3 amended: a string containing a banned term whose trimmed length is at
\* least 8 is rejected with banned_term; a shorter one with too_short.
C3_BannedWhenLongEnough ==
    (Done /\ StatedHardCondition(Candidate, 2)) =>
        /\ ~ok
        /\ info.reason = IF Len(Candidate) >= 8 THEN "banned_term"
                         ELSE "too_short"

\* C3 witness: a banned term in another letter case inside a candidate of
\* length >= 8, rejected as banned_term.
C3_Witness ==
    /\ Done
    /\ Len(Candidate) >= 8
    /\ StatedHardCondition(Candidate, 2)
    /\ \A term \in banned_terms : ~Contains(Candidate, term)
    /\ info.reason = "banned_term"

\* The position of each stage in the fixed order of evaluation.
Rank(stage) ==
    CASE stage = "start" -> 0
      [] stage = "length_gate" -> 1
      [] stage = "banned_gate" -> 2
      [] stage = "ambiguity_gate" -> 3
      [] stage = "sequence_gate" -> 4
      [] stage = "scoring" -> 5
      [] stage = "acceptance_gate" -> 6
      [] stage = "done" -> 7

\* Some block of the function is ready to run: at every gate one of the two
\* branches applies.
CanStep ==
    \/ pc \in {"start", "scoring"}
    \/ pc = "length_gate" /\ (info.length < 8 \/ ~(info.length < 8))
    \/ pc = "banned_gate" /\ (ContainsBanned(pw) \/ ~ContainsBanned(pw))
    \/ pc = "ambiguity_gate"
          /\ \/ RatioAtLeast60(amb_count, info.length)
             \/ ~RatioAtLeast60(amb_count, info.length)
    \/ pc = "sequence_gate"
          /\ \/ SequenceLimit(info.longest_linear_sequence,
                              info.longest_keyboard_walk)
             \/ ~SequenceLimit(info.longest_linear_sequence,
                               info.longest_keyboard_walk)
    \/ pc = "acceptance_gate"
          /\ \/ ~info.has_intent_signal
             \/ info.has_intent_signal /\ ScoreGate(info.score)
             \/ info.has_intent_signal /\ ~ScoreGate(info.score)

DecisionWellFormed ==
    pc = "done" =>
        /\ "reason" \in DOMAIN info
        /\ info.reason \in ReasonCodes
        /\ ok <=> (info.reason = "accepted")

\* C4: every evaluation reaches a decision (no stage before the decision is
\* stuck and every step moves forward in the fixed order of stages), with
\* exactly one reason code of the enumeration and the boolean True exactly
\* for accepted.
C4_TotalWellFormed ==
    /\ [](DecisionWellFormed /\ (pc # "done" => CanStep))
    /\ [][Rank(pc') > Rank(pc)]_vars

\* C4 witness: a whitespace-only argument evaluated to its decision.
C4_Witness ==
    /\ pc = "done"
    /\ password # <<>>
    /\ Candidate = <<>>
    /\ info.reason = "too_short"

\* C5: the computed score equals the stated sum of length, variety,
\* intentionality and penalty terms.
C5_ScoreFormula ==
    pc = "acceptance_gate" => info.score = StatedScore(pw)

\* C5 witness: a scored candidate on which the CamelCase and passphrase
\* bonuses, the separator bonus and the ambiguity penalty all apply.
C5_Witness ==
    /\ pc = "acceptance_gate"
    /\ info.camel_case
    /\ info.passphrase_like
    /\ info.meaningful_separators
    /\ RatioAtLeast30(amb_count, info.length)
    /\ info.score = StatedScore(pw)

\* C6 as stated: "BookBook!!2024" is accepted.
C6_BookBookAccepted ==
    (Done /\ Candidate = Codes("BookBook!!2024")) =>
        (ok /\ info.reason = "accepted")

\* The year and month tests as the claim states them: plain substrings.
StatedYearSubstring(low) ==
    \E i \in 1..(Len(low) - 3) :
        /\ <<low[i], low[i + 1]>> \in {Codes("19"), Codes("20")}
        /\ IsDigit(low[i + 2]) /\ IsDigit(low[i + 3])

StatedMonthSubstring(low) ==
    \E m \in 1..Len(months) : Contains(low, months[m])

StatedHasWord(s) ==
    \E i \in 1..(Len(s) - 2) : \A j \in i..(i + 2) : IsAlpha(s[j])

\* No four consecutive characters step by a constant +1 or -1.
StatedNoLinearRunOf4(s) ==
    LET l == Lower(s)
    IN  ~\E i \in 1..(Len(l) - 3) : \E d \in {1, -1} :
            \A j \in i..(i + 2) : l[j + 1] - l[j] = d

\* C7 as stated: word-plus-dateish holds exactly when there is a word
\* token, a year 1900-2099 or a month abbreviation as a substring
\* (whatever is next to the year), and no linear sequence of 4.
C7_YearAnywhere ==
    _has_word_plus_dateish(pw) <=>
        /\ StatedHasWord(pw)
        /\ StatedYearSubstring(Lower(pw)) \/ StatedMonthSubstring(Lower(pw))
        /\ StatedNoLinearRunOf4(pw)

\* The contiguous slices of a keyboard row and of its reversal, written
\* without reversing the row: a slice read right to left.
SlicesOf(line) ==
    UNION { { { [k \in 1..(b - a + 1) |-> line[a + k - 1]],
                [k \in 1..(b - a + 1) |-> line[b - k + 1]] } :
              b \in a..Len(line) } : a \in 1..Len(line) }

RowSlices == UNION { UNION SlicesOf(rows[r]) : r \in 1..Len(rows) }

\* L: the length of the longest substring of the lowercased text lying on
\* a row or a reversed row (0 when there is none).
LongestOnRows(s) ==
    LET l == Lower(s)
        lens == {w \in 1..Len(l) :
                    \E i \in 1..(Len(l) - w + 1) :
                        SubSeq(l, i, i + w - 1) \in RowSlices}
    IN  IF lens = {} THEN 0 ELSE CHOOSE w \in lens : \A v \in lens : v <= w

\* C8: _longest_keyboard_walk returns max(1, min(12, L)), for every
\* argument and for the trimmed candidate it is measured on; the search
\* that only tries windows longer than the best so far misses nothing.
C8_KeyboardWalkExact ==
    /\ pc = "length_gate" =>
          _longest_keyboard_walk(password) =
              Max(1, Min(12, LongestOnRows(password)))
    /\ pc = "sequence_gate" =>
          info.longest_keyboard_walk = Max(1, Min(12, LongestOnRows(pw)))

\* C8 witness: a text holding a whole 13-key row after a shorter walk, so
\* the cap applies and the longest walk is not the first one found.
C8_Witness ==
    /\ LongestOnRows(pw) = 13
    /\ _longest_keyboard_walk(pw) = 12
    /\ Prefix(pw, 4) = Codes("sdfg")
    /\ "longest_keyboard_walk" \in DOMAIN info
    /\ info.longest_keyboard_walk = 12

FirstCharCount(s) ==
    IF s = <<>> THEN 0 ELSE Cardinality({i \in 1..Len(s) : s[i] = s[1]})

\* C9: _is_repeated_short_chunk is true exactly when the first character
\* occurs at least 3 times, and the flag recorded for scoring is that.
C9_FirstCharThrice ==
    /\ pc = "length_gate" =>
          (_is_repeated_short_chunk(password) <=> FirstCharCount(password) >= 3)
    /\ ("repeated_short_chunk" \in DOMAIN info) =>
          (info.repeated_short_chunk <=> FirstCharCount(pw) >= 3)

\* C9 witness: the flag is set, and penalised, for a candidate that is no
\* tiling and whose first character occurs three times far apart.
C9_Witness ==
    /\ "score" \in DOMAIN info
    /\ info.repeated_short_chunk
    /\ FirstCharCount(pw) = 3
    /\ \A k \in 1..3 : ~ExactTiling(pw, k)
    /\ _max_same_char_run(pw) = 1

\* C10: once scored, the word-plus-dateish bonus and the linear-sequence
\* penalty never apply together, and a sequence penalty applies only to a
\* length of exactly 4.
C10_PenaltiesOnlyAtFour ==
    ("score" \in DOMAIN info) =>
        /\ ~(info.word_plus_dateish /\ info.longest_linear_sequence >= 4)
        /\ info.longest_linear_sequence >= 4 => info.longest_linear_sequence = 4
        /\ info.longest_keyboard_walk >= 4 => info.longest_keyboard_walk = 4

\* C10 witness: a scored candidate with a year, a word and a linear
\* sequence of exactly 4, so the penalty applies and the bonus does not.
C10_Witness ==
    /\ "score" \in DOMAIN info
    /\ info.longest_linear_sequence = 4
    /\ info.longest_keyboard_walk = 4
    /\ StatedHasWord(pw)
    /\ has_year(Lower(pw))
    /\ ~info.word_plus_dateish

====
